---- MODULE Spec2Model ----
(***************************************************************************)
(* Model of the Flask YOLOv8 detection server (app.py, detect.py).         *)
(*                                                                         *)
(* The state is the module-level dictionary detection_jobs, the upload     *)
(* folder, the detector's model attribute, the wall clock, the position    *)
(* and locals of every upload handler and of every background thread, and  *)
(* the response get_result is returning.  Handlers run in their own        *)
(* threads (app.run(threaded=True)), so an upload handler is split at the  *)
(* points where other threads can observe its effects: after file.save,    *)
(* after the dictionary insert and Thread.start, and at the return.        *)
(* get_result reads one dictionary entry and is one step; its statements   *)
(* are also modelled one by one (Reader...), with the record it holds      *)
(* shared with the thread that marks the job in place.  list_jobs is a     *)
(* loop over the dictionary and is modelled item by item (List...).        *)
(* Clients are a poller that records the statuses it is given, and the     *)
(* callers of the storage endpoints.                                       *)
(*                                                                         *)
(* Numbers: confidences are kept in hundredths (0.5 is 50).  The clock     *)
(* counts ticks; strftime("%Y%m%d_%H%M%S") keeps whole seconds only.       *)
(*                                                                         *)
(* Environment: file.save either stores the file or raises and stores      *)
(* nothing; Thread.start does not fail; the detector call returns or       *)
(* raises; time.sleep(0.5) is part of the detection step.  Bounding boxes  *)
(* are left out of the detection result: no handler reads them.            *)
(***************************************************************************)
EXTENDS Integers, Sequences, FiniteSets, TLC

\* ---------------------------------------------------------------- bounds
\* Upload requests, boxes the model produces for an image, the last tick
\* of the clock, and the clock's ticks in a second.
MaxUploads == 2
MaxBoxes == 1
MaxTime == 1
MaxDetections == 3
TicksPerSecond == 2

\* ------------------------------------------------------------- constants
SecondsPerDay == 86400
DefaultConfidence == 50
MinConfidence == 10
MaxConfidence == 100
DefaultDays == 7

ALLOWED_EXTENSIONS == {<<"p","n","g">>, <<"j","p","g">>, <<"j","p","e","g">>,
                       <<"g","i","f">>, <<"b","m","p">>}

\* --------------------------------------------------------------- strings
\* File names are sequences of characters.
Lower(c) ==
    CASE c = "J" -> "j"
      [] c = "P" -> "p"
      [] c = "G" -> "g"
      [] c = "N" -> "n"
      [] OTHER -> c

LowerStr(s) == [i \in 1..Len(s) |-> Lower(s[i])]

HasDot(s) == \E i \in 1..Len(s) : s[i] = "."

LastDot(s) == CHOOSE i \in 1..Len(s) : s[i] = "." /\ \A k \in (i+1)..Len(s) : s[k] # "."

\* filename.rsplit('.', 1)[1]
RsplitExt(s) == SubSeq(s, LastDot(s) + 1, Len(s))

allowed_file(filename) ==
    HasDot(filename) /\ LowerStr(RsplitExt(filename)) \in ALLOWED_EXTENSIONS

\* werkzeug's secure_filename: path separators become "_", characters
\* outside [A-Za-z0-9_.-] are dropped, leading and trailing "." and "_" are
\* stripped.
SafeChar(c) == c \notin {"/", " "}

RECURSIVE StripLead(_)
StripLead(s) ==
    IF s # <<>> /\ Head(s) \in {".", "_"} THEN StripLead(Tail(s)) ELSE s

RECURSIVE StripTrail(_)
StripTrail(s) ==
    IF s # <<>> /\ s[Len(s)] \in {".", "_"}
    THEN StripTrail(SubSeq(s, 1, Len(s) - 1)) ELSE s

secure_filename(s) ==
    StripTrail(StripLead([i \in 1..Len(s) |-> IF SafeChar(s[i]) THEN s[i] ELSE "_"]))

\* ---------------------------------------------------------------- inputs
FileNames == { <<>>,
               <<"a",".","j","p","g">>,
               <<"a",".","J","P","G">>,
               <<".",".","/","a",".","j","p","g">>,
               <<"a",".","t","x","t">>,
               <<"a">> }

\* The form field 'confidence': absent, a decimal literal, "nan", or text
\* that float() rejects.
ConfInputs == { [kind |-> "absent"],
                [kind |-> "num", val |-> 60],
                [kind |-> "num", val |-> 5],
                [kind |-> "nan"],
                [kind |-> "text"] }

\* The decimal literals of the threshold checks, in hundredths: below,
\* at and above both ends of the accepted range, and between.
ConfValues == {0 - 10, 5, 9, 10, 11, 55, 60, 100, 101}
AllConfInputs == { [kind |-> "absent"], [kind |-> "nan"], [kind |-> "text"] }
                     \cup { [kind |-> "num", val |-> v] : v \in ConfValues }

DaysInputs == {0, DefaultDays}

Classes == {"botol", "kaleng"}
BoxConfs == {55, 81}
Boxes == [label : Classes, conf : BoxConfs]

Reqs == 1..MaxUploads
JobIds == Reqs
\* An id no upload was given.
UnknownId == MaxUploads + 1

\* ------------------------------------------------------------------ state
VARIABLES
    model_loaded,     \* detector.model is not None
    detection_jobs,   \* the dictionary detection_jobs: job id -> job record
    files,            \* the upload folder: stored file name -> [ctime]
    now,              \* the wall clock, in ticks
    req,              \* upload handlers: position and locals
    upload_response,  \* what each upload handler returned
    worker,           \* background threads: position and arguments
    get_response,     \* the response get_result returns in this step, if any
    polled,           \* the statuses a poller was given for a job, without repeats
    reader,           \* a get_result call taken statement by statement
    lister,           \* a list_jobs call taken item by item, and its response
    admin_response    \* the response list_jobs or a storage endpoint returns in this step, if any

vars == <<model_loaded, detection_jobs, files, now, req, upload_response,
          worker, get_response, polled, reader, lister, admin_response>>

\* The clients' side and the calls modelled statement by statement.
clients == <<polled, reader, lister>>

NoResponse == [code |-> 0]
IdleReq == [pc |-> "idle"]
DoneReq == [pc |-> "done"]
NoWorker == [pc |-> "none"]
IdleReader == [pc |-> "idle"]
IdleLister == [pc |-> "idle"]

\* A response is sent to its client and kept by no handler: a step of
\* another handler leaves none behind.
NoReply == get_response' = NoResponse /\ admin_response' = NoResponse

\* dict.get(key, default)
Get(d, key, default) == IF key \in DOMAIN d THEN d[key] ELSE default

\* The dictionary after d[key] = value.
Put(d, key, value) ==
    [k \in DOMAIN d \cup {key} |-> IF k = key THEN value ELSE d[k]]

\* The dictionary without the keys in gone.
Without(d, gone) == [k \in DOMAIN d \ gone |-> d[k]]

RECURSIVE Sum(_)
Sum(s) == IF s = <<>> THEN 0 ELSE Head(s) + Sum(Tail(s))

SeqsUpTo(S, n) == UNION { [1..k -> S] : k \in 0..n }

\* The orders in which list(set(labels)) can enumerate the set.
Orders(S) == { q \in [1..Cardinality(S) -> S] : \A x \in S : \E i \in DOMAIN q : q[i] = x }

SelectBoxes(raw, conf_threshold) == SelectSeq(raw, LAMBDA b : b.conf >= conf_threshold)

\* -------------------------------------------------------------- detect.py
ModelNames == Classes

\* The detector that returns the labels of all boxes as the unique labels.
detect_image_rawlabels(loaded, exists, readable, infer_ok, raw, conf_threshold, uniq) ==
    IF ~loaded \/ ~exists \/ ~readable \/ ~infer_ok
    THEN [raised |-> TRUE, message |-> "Error dalam deteksi"]
    ELSE LET kept == SelectBoxes(raw, conf_threshold)
             detected_labels == [i \in 1..Len(kept) |-> kept[i].label]
         IN  [raised |-> FALSE,
              value |-> [labels |-> detected_labels,
                         confidences |-> [i \in 1..Len(kept) |-> kept[i].conf],
                         total_objects |-> Len(detected_labels),
                         unique_labels |-> detected_labels,
                         model_names |-> ModelNames]]

\* YOLODetector.detect_image.  exists: os.path.exists(image_path);
\* readable: cv2.imread returned an image; infer_ok: self.model(...) did
\* not raise; raw: the boxes the model produced; uniq: the order in which
\* list(set(detected_labels)) enumerates the distinct labels.
detect_image(loaded, exists, readable, infer_ok, raw, conf_threshold, uniq) ==
    IF ~loaded
    THEN [raised |-> TRUE, message |-> "Model belum dimuat atau gagal dimuat"]
    ELSE IF ~exists
    THEN [raised |-> TRUE, message |-> "Gambar tidak ditemukan"]
    ELSE IF ~readable
    THEN [raised |-> TRUE, message |-> "Error dalam deteksi: Gagal membaca gambar"]
    ELSE IF ~infer_ok
    THEN [raised |-> TRUE, message |-> "Error dalam deteksi: inference"]
    ELSE LET kept == SelectBoxes(raw, conf_threshold)
             detected_labels == [i \in 1..Len(kept) |-> kept[i].label]
             confidences == [i \in 1..Len(kept) |-> kept[i].conf]
         IN  [raised |-> FALSE,
              value |-> [labels |-> detected_labels,
                         confidences |-> confidences,
                         total_objects |-> Len(detected_labels),
                         unique_labels |-> uniq,
                         model_names |-> ModelNames]]

LabelSet(raw, conf_threshold) ==
    { SelectBoxes(raw, conf_threshold)[i].label : i \in 1..Len(SelectBoxes(raw, conf_threshold)) }

\* ----------------------------------------------------------------- app.py
\* float(request.form.get('confidence', 0.5)): the number in hundredths,
\* nan, or a ValueError for text that is no number.
FloatOf(c) ==
    CASE c.kind = "absent" -> [raised |-> FALSE, nan |-> FALSE, val |-> DefaultConfidence]
      [] c.kind = "num" -> [raised |-> FALSE, nan |-> FALSE, val |-> c.val]
      [] c.kind = "nan" -> [raised |-> FALSE, nan |-> TRUE, val |-> 0]
      [] OTHER -> [raised |-> TRUE, nan |-> FALSE, val |-> 0]

\* if not (0.1 <= conf_threshold <= 1.0): conf_threshold = 0.5
\* (every comparison with nan is false).
\* The check with the lower end left out of the range.
ClampConfidence_strict(f) ==
    IF ~f.nan /\ MinConfidence < f.val /\ f.val <= MaxConfidence
    THEN f.val ELSE DefaultConfidence

ClampConfidence(f) ==
    IF ~f.nan /\ MinConfidence <= f.val /\ f.val <= MaxConfidence
    THEN f.val ELSE DefaultConfidence

\* The checks of upload_image before the file is stored, in the order of
\* the code: the response they produce, or code 0 when the upload goes on.
Reject(code, message) == [code |-> code, body |-> [error |-> message]]

\* The checks with the detector looked at last.
UploadCheck_late(loaded, has_file, filename, confidence) ==
    IF ~has_file THEN Reject(400, "Tidak ada file image")
    ELSE IF filename = <<>> THEN Reject(400, "Tidak ada file yang dipilih")
    ELSE IF FloatOf(confidence).raised THEN Reject(500, "Server error: ValueError")
    ELSE IF ~allowed_file(filename) THEN Reject(400, "Tipe file tidak diizinkan")
    ELSE IF ~loaded THEN Reject(503, "Model YOLOv8 tidak tersedia")
    ELSE NoResponse

UploadCheck(loaded, has_file, filename, confidence) ==
    IF ~loaded THEN Reject(503, "Model YOLOv8 tidak tersedia")
    ELSE IF ~has_file THEN Reject(400, "Tidak ada file image")
    ELSE IF filename = <<>> THEN Reject(400, "Tidak ada file yang dipilih")
    ELSE IF FloatOf(confidence).raised THEN Reject(500, "Server error: ValueError")
    ELSE IF ~allowed_file(filename) THEN Reject(400, "Tipe file tidak diizinkan")
    ELSE NoResponse

Strftime(t) == t \div TicksPerSecond

StoredName(t, original) == [stamp |-> Strftime(t), name |-> secure_filename(original)]

\* ErrorJob with the exception's text lost.
ErrorJob_blank(t, filename, message) ==
    [status |-> "error", results |-> <<>>, error |-> "", timestamp |-> t,
     filename |-> filename, total_objects |-> 0, unique_objects |-> 0]

QueuedJob(t, filename, conf_threshold) ==
    [status |-> "queued",
     results |-> <<>>,
     timestamp |-> t,
     filename |-> filename,
     confidence_threshold |-> conf_threshold]

\* The thread that does not mark the job.
ProcessingJob_skip(job) == job

ProcessingJob(job) == [job EXCEPT !.status = "processing"]

Average(confidences) ==
    IF confidences # <<>>
    THEN [num |-> Sum(confidences), den |-> Len(confidences)]
    ELSE [num |-> 0, den |-> 1]

\* The completed record that keeps an error field.
CompletedJob_uniform(t, filename, detection_result) ==
    [status |-> "completed", results |-> detection_result.unique_labels,
     error |-> "", timestamp |-> t, filename |-> filename,
     total_objects |-> detection_result.total_objects,
     unique_objects |-> Len(detection_result.unique_labels),
     all_labels |-> detection_result.labels,
     confidences |-> detection_result.confidences,
     avg_confidence |-> Average(detection_result.confidences),
     detection_details |-> detection_result]

CompletedJob(t, filename, detection_result) ==
    [status |-> "completed",
     results |-> detection_result.unique_labels,
     timestamp |-> t,
     filename |-> filename,
     total_objects |-> detection_result.total_objects,
     unique_objects |-> Len(detection_result.unique_labels),
     all_labels |-> detection_result.labels,
     confidences |-> detection_result.confidences,
     avg_confidence |-> Average(detection_result.confidences),
     detection_details |-> detection_result]

ErrorJob(t, filename, message) ==
    [status |-> "error",
     results |-> <<>>,
     error |-> message,
     timestamp |-> t,
     filename |-> filename,
     total_objects |-> 0,
     unique_objects |-> 0]

\* round(x, 3) of a quotient of hundredths, in thousandths (ties to even).
Round3(q) ==
    LET n == q.num * 10
        lo == n \div q.den
        rem == n % q.den
    IN  IF 2 * rem > q.den \/ (2 * rem = q.den /\ lo % 2 = 1) THEN lo + 1 ELSE lo

\* The body of get_result's response for a job record.
ResponseData(job_id, job_data) ==
    [job_id |-> job_id,
     status |-> job_data.status,
     hasil |-> job_data.results,
     filename |-> job_data.filename,
     timestamp |-> job_data.timestamp,
     total_objects |-> Get(job_data, "total_objects", 0),
     unique_objects |-> Get(job_data, "unique_objects", 0),
     confidence_threshold |-> Get(job_data, "confidence_threshold", DefaultConfidence)]

\* The response that gives the unique labels as the detected labels.
CompletedExtra_unique(job_data) ==
    [all_detected_labels |-> job_data.results,
     confidences |-> Get(job_data, "confidences", <<>>),
     average_confidence |-> Round3(Get(job_data, "avg_confidence", [num |-> 0, den |-> 1]))]

CompletedExtra(job_data) ==
    [all_detected_labels |-> Get(job_data, "all_labels", <<>>),
     confidences |-> Get(job_data, "confidences", <<>>),
     average_confidence |-> Round3(Get(job_data, "avg_confidence", [num |-> 0, den |-> 1]))]

ErrorExtra(job_data) == [error |-> Get(job_data, "error", "Unknown error")]

\* dict.update: the fields of extra added to (or replacing those of) base.
Update(base, extra) ==
    [k \in DOMAIN base \cup DOMAIN extra |-> IF k \in DOMAIN extra THEN extra[k] ELSE base[k]]

GetResultResponse(jobs, job_id) ==
    IF job_id \notin DOMAIN jobs
    THEN [job_id |-> job_id, code |-> 404, body |-> [error |-> "Job ID tidak ditemukan"]]
    ELSE LET job_data == jobs[job_id]
             response_data == ResponseData(job_id, job_data)
         IN  [job_id |-> job_id,
              code |-> 200,
              body |-> IF job_data.status = "completed"
                       THEN Update(response_data, CompletedExtra(job_data))
                       ELSE IF job_data.status = "error"
                       THEN Update(response_data, ErrorExtra(job_data))
                       ELSE response_data]

\* ----------------------------------------------------------------- Init
Init ==
    /\ model_loaded \in BOOLEAN
    /\ detection_jobs = [k \in {} |-> NoResponse]
    /\ files = [k \in {} |-> NoResponse]
    /\ now = 0
    /\ req = [r \in Reqs |-> IdleReq]
    /\ upload_response = [r \in Reqs |-> NoResponse]
    /\ worker = [j \in JobIds |-> NoWorker]
    /\ get_response = NoResponse
    /\ polled = [j \in JobIds |-> <<>>]
    /\ reader = IdleReader
    /\ lister = IdleLister
    /\ admin_response = NoResponse

\* ------------------------------------------------------- upload_image
\* Lines 94-131: the checks, the stored name and file.save.  job_id is
\* uuid.uuid4(): an id no other upload has; the uploads are numbered in the
\* order in which their handlers begin, and the r-th gets the id r.

\* The handler that registers the job before it saves the file.
UploadBegin_register_first(r, has_file, filename, confidence, save_ok) ==
    /\ req[r].pc = "idle"
    /\ \A q \in Reqs : q < r => req[q].pc # "idle"
    /\ LET early == UploadCheck(model_loaded, has_file, filename, confidence)
           stored == StoredName(now, filename)
       IN  IF early.code # 0
           THEN /\ upload_response' = [upload_response EXCEPT ![r] = early]
                /\ req' = [req EXCEPT ![r] = DoneReq]
                /\ UNCHANGED <<files, detection_jobs>>
           ELSE IF ~save_ok
           THEN /\ upload_response' =
                       [upload_response EXCEPT ![r] = Reject(500, "Server error: save")]
                /\ req' = [req EXCEPT ![r] = DoneReq]
                /\ UNCHANGED files
                /\ detection_jobs' = Put(detection_jobs, r, QueuedJob(now, stored,
                                             ClampConfidence(FloatOf(confidence))))
           ELSE /\ detection_jobs' = detection_jobs
                /\ files' = Put(files, stored, [ctime |-> now])
                /\ req' = [req EXCEPT ![r] =
                              [pc |-> "saved", job_id |-> r, filename |-> stored,
                               conf_threshold |-> ClampConfidence(FloatOf(confidence))]]
                /\ UNCHANGED upload_response
    /\ NoReply
    /\ UNCHANGED <<model_loaded, now, worker>>
    /\ UNCHANGED clients

\* Lines 94-131.
UploadBegin(r, has_file, filename, confidence, save_ok) ==
    /\ req[r].pc = "idle"
    /\ \A q \in Reqs : q < r => req[q].pc # "idle"
    /\ LET early == UploadCheck(model_loaded, has_file, filename, confidence)
           stored == StoredName(now, filename)
       IN  IF early.code # 0
           THEN /\ upload_response' = [upload_response EXCEPT ![r] = early]
                /\ req' = [req EXCEPT ![r] = DoneReq]
                /\ UNCHANGED files
           ELSE IF ~save_ok
           THEN /\ upload_response' =
                       [upload_response EXCEPT ![r] = Reject(500, "Server error: save")]
                /\ req' = [req EXCEPT ![r] = DoneReq]
                /\ UNCHANGED files
           ELSE /\ files' = Put(files, stored, [ctime |-> now])
                /\ req' = [req EXCEPT ![r] =
                              [pc |-> "saved", job_id |-> r, filename |-> stored,
                               conf_threshold |-> ClampConfidence(FloatOf(confidence))]]
                /\ UNCHANGED upload_response
    /\ NoReply
    /\ UNCHANGED <<model_loaded, detection_jobs, now, worker>>
    /\ UNCHANGED clients

\* Lines 143-148: the arguments of the background thread; calls counts the
\* detector calls the thread has made.
StartedWorker(filepath, filename, conf_threshold) ==
    [pc |-> "started", image_path |-> filepath, filename |-> filename,
     conf_threshold |-> conf_threshold, calls |-> 0]

\* Lines 134-148: detection_jobs[job_id] = {...}, then the background
\* thread is created and started; it runs on its own from here.
UploadRegister(r) ==
    /\ req[r].pc = "saved"
    /\ detection_jobs' = Put(detection_jobs, req[r].job_id,
                             QueuedJob(now, req[r].filename, req[r].conf_threshold))
    /\ worker' = [worker EXCEPT ![req[r].job_id] =
                     StartedWorker(req[r].filename, req[r].filename, req[r].conf_threshold)]
    /\ req' = [req EXCEPT ![r].pc = "threaded"]
    /\ NoReply
    /\ UNCHANGED <<model_loaded, files, now, upload_response>>
    /\ UNCHANGED clients

\* Lines 153-159: the response.
SuccessResponse(job_id, filename, conf_threshold) ==
    [code |-> 200,
     body |-> [status |-> "success", job_id |-> job_id, filename |-> filename,
               confidence_threshold |-> conf_threshold]]

\* A handler that joins the background thread before it answers.
UploadRespond_join(r) ==
    /\ req[r].pc = "threaded"
    /\ worker[req[r].job_id].pc = "done"
    /\ upload_response' = [upload_response EXCEPT ![r] =
           SuccessResponse(req[r].job_id, req[r].filename, req[r].conf_threshold)]
    /\ req' = [req EXCEPT ![r] = DoneReq]
    /\ NoReply
    /\ UNCHANGED <<model_loaded, detection_jobs, files, now, worker>>
    /\ UNCHANGED clients

UploadRespond(r) ==
    /\ req[r].pc = "threaded"
    /\ upload_response' = [upload_response EXCEPT ![r] =
           SuccessResponse(req[r].job_id, req[r].filename, req[r].conf_threshold)]
    /\ req' = [req EXCEPT ![r] = DoneReq]
    /\ NoReply
    /\ UNCHANGED <<model_loaded, detection_jobs, files, now, worker>>
    /\ UNCHANGED clients

\* ------------------------------------------- detect_objects_background
\* Line 44 changes the job's dictionary in place: a get_result call that
\* holds that dictionary (job_data, line 180) sees the change.
AfterMark(rd, j) ==
    IF rd.pc \in {"fetched", "built"} /\ rd.job_id = j /\ rd.job_data.status = "queued"
    THEN [rd EXCEPT !.job_data = ProcessingJob(@)]
    ELSE rd

\* Line 44: detection_jobs[job_id]['status'] = 'processing'
WorkerProcessing(j) ==
    /\ worker[j].pc = "started"
    /\ detection_jobs' = Put(detection_jobs, j, ProcessingJob(detection_jobs[j]))
    /\ worker' = [worker EXCEPT ![j].pc = "processing"]
    /\ NoReply
    /\ UNCHANGED <<model_loaded, files, now, req, upload_response>>
    /\ reader' = AfterMark(reader, j)
    /\ UNCHANGED <<polled, lister>>

\* A thread whose except clause is missing: the exception ends the thread
\* and the job keeps the record it had.
StoreOutcome_uncaught(jobs, job_id, t, filename, out) ==
    IF out.raised
    THEN jobs
    ELSE Put(jobs, job_id, CompletedJob(t, filename, out.value))

\* A thread that drops the job whose detection failed.
StoreOutcome_drop(jobs, job_id, t, filename, out) ==
    IF out.raised
    THEN Without(jobs, {job_id})
    ELSE Put(jobs, job_id, CompletedJob(t, filename, out.value))

\* Lines 63-87: the dictionary after the thread has stored the detector's
\* outcome; the except clause catches every exception of the try block.
\* The thread that divides by the number of confidences, whatever it is.
StoreOutcome_zerodiv(jobs, job_id, t, filename, out) ==
    IF out.raised
    THEN Put(jobs, job_id, ErrorJob(t, filename, out.message))
    ELSE IF out.value.confidences = <<>>
    THEN Put(jobs, job_id, ErrorJob(t, filename, "division by zero"))
    ELSE Put(jobs, job_id, CompletedJob(t, filename, out.value))

\* The thread that puts a failed job back in the queue.
StoreOutcome_requeue(jobs, job_id, t, filename, out) ==
    IF out.raised
    THEN Put(jobs, job_id, QueuedJob(t, filename, DefaultConfidence))
    ELSE Put(jobs, job_id, CompletedJob(t, filename, out.value))

StoreOutcome(jobs, job_id, t, filename, out) ==
    IF out.raised
    THEN Put(jobs, job_id, ErrorJob(t, filename, out.message))
    ELSE Put(jobs, job_id, CompletedJob(t, filename, out.value))

\* The thread that calls the detector a second time when the first call raised.
WorkerDetect_retry(j, readable, infer_ok, raw, uniq) ==
    /\ worker[j].pc = "processing"
    /\ uniq \in Orders(LabelSet(raw, worker[j].conf_threshold))
    /\ LET out == detect_image(model_loaded, worker[j].image_path \in DOMAIN files,
                               readable, infer_ok, raw, worker[j].conf_threshold, uniq)
       IN  IF out.raised /\ worker[j].calls = 0
           THEN /\ detection_jobs' = detection_jobs
                /\ worker' = [worker EXCEPT ![j].calls = @ + 1]
           ELSE /\ detection_jobs' = StoreOutcome(detection_jobs, j, now, worker[j].filename, out)
                /\ worker' = [worker EXCEPT ![j] = [pc |-> "done", raised |-> out.raised,
                                                    calls |-> worker[j].calls + 1]]
    /\ NoReply
    /\ UNCHANGED <<model_loaded, files, now, req, upload_response>>
    /\ UNCHANGED clients

\* Lines 47-87: the sleep, the detector call and the update of the job.
WorkerDetect(j, readable, infer_ok, raw, uniq) ==
    /\ worker[j].pc = "processing"
    /\ uniq \in Orders(LabelSet(raw, worker[j].conf_threshold))
    /\ LET out == detect_image(model_loaded, worker[j].image_path \in DOMAIN files,
                               readable, infer_ok, raw, worker[j].conf_threshold, uniq)
       IN  /\ detection_jobs' = StoreOutcome(detection_jobs, j, now, worker[j].filename, out)
           /\ worker' = [worker EXCEPT ![j] = [pc |-> "done", raised |-> out.raised,
                                               calls |-> worker[j].calls + 1]]
    /\ NoReply
    /\ UNCHANGED <<model_loaded, files, now, req, upload_response>>
    /\ UNCHANGED clients

\* ---------------------------------------------------------- get_result
\* The lookup that makes an entry for an id it does not find.
GetResult_create(job_id) ==
    /\ get_response' = GetResultResponse(detection_jobs, job_id)
    /\ detection_jobs' = IF job_id \in DOMAIN detection_jobs THEN detection_jobs
                         ELSE Put(detection_jobs, job_id,
                                  QueuedJob(now, StoredName(now, <<>>), DefaultConfidence))
    /\ admin_response' = NoResponse
    /\ UNCHANGED <<model_loaded, files, now, req, upload_response, worker>>
    /\ UNCHANGED clients

GetResult(job_id) ==
    /\ get_response' = GetResultResponse(detection_jobs, job_id)
    /\ admin_response' = NoResponse
    /\ UNCHANGED <<model_loaded, detection_jobs, files, now, req, upload_response, worker>>
    /\ UNCHANGED clients

\* get_result statement by statement.  Lines 176-180: the test and the
\* lookup; job_data is the dictionary the store holds for the job, not a copy.
ReaderFetch(job_id) ==
    /\ reader.pc = "idle"
    /\ IF job_id \notin DOMAIN detection_jobs
       THEN /\ get_response' = GetResultResponse(detection_jobs, job_id)
            /\ reader' = reader
       ELSE /\ get_response' = NoResponse
            /\ reader' = [pc |-> "fetched", job_id |-> job_id,
                          job_data |-> detection_jobs[job_id]]
    /\ admin_response' = NoResponse
    /\ UNCHANGED <<model_loaded, detection_jobs, files, now, req, upload_response, worker>>
    /\ UNCHANGED <<polled, lister>>

\* Lines 183-192: response_data is built from job_data.
ReaderBuild ==
    /\ reader.pc = "fetched"
    /\ reader' = [pc |-> "built", job_id |-> reader.job_id, job_data |-> reader.job_data,
                  response_data |-> ResponseData(reader.job_id, reader.job_data)]
    /\ NoReply
    /\ UNCHANGED <<model_loaded, detection_jobs, files, now, req, upload_response, worker>>
    /\ UNCHANGED <<polled, lister>>

\* The call that looks the job up again for each field.
HeldRecord_lookup(rd, jobs) == jobs[rd.job_id]

\* The dictionary lines 195-203 read: the one fetched at line 180.
HeldRecord(rd, jobs) == rd.job_data

\* Lines 195-203: the fields added for a completed or an error job.
ReaderBody(response_data, job_data) ==
    IF job_data.status = "completed"
    THEN Update(response_data, CompletedExtra(job_data))
    ELSE IF job_data.status = "error"
    THEN Update(response_data, ErrorExtra(job_data))
    ELSE response_data

\* Lines 195-205.
ReaderFinish ==
    /\ reader.pc = "built"
    /\ get_response' = [job_id |-> reader.job_id, code |-> 200,
                        body |-> ReaderBody(reader.response_data,
                                            HeldRecord(reader, detection_jobs))]
    /\ reader' = IdleReader
    /\ admin_response' = NoResponse
    /\ UNCHANGED <<model_loaded, detection_jobs, files, now, req, upload_response, worker>>
    /\ UNCHANGED <<polled, lister>>

\* A client that polls get_result for the job id its upload returned keeps
\* the statuses it is given, in the order of its calls and without repeats.
Observe(seen, status) ==
    IF seen # <<>> /\ seen[Len(seen)] = status THEN seen ELSE Append(seen, status)

\* One get_result call of the poller of job_id; the calls of one poller
\* follow each other, and one job is polled.
Poll(job_id) ==
    /\ \E r \in Reqs : upload_response[r].code = 200
                        /\ upload_response[r].body.job_id = job_id
    /\ \A k \in JobIds \ {job_id} : polled[k] = <<>>
    /\ LET response == GetResultResponse(detection_jobs, job_id)
       IN  /\ get_response' = response
           /\ polled' = IF response.code = 200
                        THEN [polled EXCEPT ![job_id] = Observe(@, response.body.status)]
                        ELSE polled
    /\ admin_response' = NoResponse
    /\ UNCHANGED <<model_loaded, detection_jobs, files, now, req, upload_response, worker>>
    /\ UNCHANGED <<reader, lister>>

\* ----------------------------------------------------------- list_jobs
\* Lines 212-217: the counters and the iterator of detection_jobs.items();
\* used is the size of the dictionary the iterator remembers.
ListBegin ==
    /\ lister.pc = "idle"
    /\ lister' = [pc |-> "iterating", used |-> Cardinality(DOMAIN detection_jobs),
                  jobs_summary |-> <<>>, active_jobs |-> 0, completed_jobs |-> 0,
                  error_jobs |-> 0]
    /\ NoReply
    /\ UNCHANGED <<model_loaded, detection_jobs, files, now, req, upload_response, worker>>
    /\ UNCHANGED <<polled, reader>>

\* Lines 218-223: the entry of jobs_summary for a job.
JobSummary(job_data) ==
    [status |-> job_data.status, filename |-> job_data.filename,
     timestamp |-> job_data.timestamp,
     total_objects |-> Get(job_data, "total_objects", 0)]

\* Lines 226-231: the counters after a job of the given status.
Counted(l, status) ==
    [l EXCEPT !.active_jobs = @ + (IF status \in {"queued", "processing"} THEN 1 ELSE 0),
              !.completed_jobs = @ + (IF status = "completed" THEN 1 ELSE 0),
              !.error_jobs = @ + (IF status = "error" THEN 1 ELSE 0)]

\* An exception no handler catches: Flask answers 500.
Uncaught(endpoint) == [endpoint |-> endpoint, code |-> 500]

\* Line 217, one turn of the loop.  The iterator raises RuntimeError
\* (dictionary changed size during iteration) when the dictionary has not
\* the size it had at line 217, and list_jobs catches nothing; otherwise it
\* gives the next item, or ends the loop.  The jobs not yet visited are
\* visited in the dictionary's order, which no count depends on: any order.
ListStep ==
    /\ lister.pc = "iterating"
    /\ IF Cardinality(DOMAIN detection_jobs) # lister.used
       THEN /\ admin_response' = Uncaught("jobs")
            /\ lister' = IdleLister
       ELSE /\ admin_response' = NoResponse
            /\ IF DOMAIN lister.jobs_summary = DOMAIN detection_jobs
               THEN lister' = [lister EXCEPT !.pc = "counted"]
               ELSE \E job_id \in DOMAIN detection_jobs \ DOMAIN lister.jobs_summary :
                       lister' = Counted(
                           [lister EXCEPT !.jobs_summary =
                               Put(@, job_id, JobSummary(detection_jobs[job_id]))],
                           detection_jobs[job_id].status)
    /\ get_response' = NoResponse
    /\ UNCHANGED <<model_loaded, detection_jobs, files, now, req, upload_response, worker>>
    /\ UNCHANGED <<polled, reader>>

\* Lines 233-239: the response, with len(detection_jobs) taken now.
ListReturn ==
    /\ lister.pc = "counted"
    /\ admin_response' = [endpoint |-> "jobs", code |-> 200,
                          body |-> [total_jobs |-> Cardinality(DOMAIN detection_jobs),
                                    active_jobs |-> lister.active_jobs,
                                    completed_jobs |-> lister.completed_jobs,
                                    error_jobs |-> lister.error_jobs,
                                    jobs |-> lister.jobs_summary]]
    /\ lister' = IdleLister
    /\ get_response' = NoResponse
    /\ UNCHANGED <<model_loaded, detection_jobs, files, now, req, upload_response, worker>>
    /\ UNCHANGED <<polled, reader>>

\* --------------------------------------------------- cleanup_old_files
\* cutoff_time = time.time() - days_old * 24 * 60 * 60, in ticks.
Cutoff(t, days_old) == t - days_old * SecondsPerDay * TicksPerSecond

OldFiles(fs, t, days_old) == { f \in DOMAIN fs : fs[f].ctime < Cutoff(t, days_old) }

\* The cleanup that also forgets the jobs of the files it removes.
CleanupOldFiles_purge(days_old) ==
    /\ files' = Without(files, OldFiles(files, now, days_old))
    /\ detection_jobs' = Without(detection_jobs,
            { k \in DOMAIN detection_jobs :
                  detection_jobs[k].filename \in OldFiles(files, now, days_old) })
    /\ NoReply
    /\ UNCHANGED <<model_loaded, now, req, upload_response, worker>>
    /\ UNCHANGED clients

CleanupOldFiles(days_old) ==
    /\ files' = Without(files, OldFiles(files, now, days_old))
    /\ NoReply
    /\ UNCHANGED <<model_loaded, detection_jobs, now, req, upload_response, worker>>
    /\ UNCHANGED clients

\* ------------------------------------- list_uploaded_files, get_storage_info
\* The files of the upload folder list_uploaded_files reports: those whose
\* name has an allowed extension (the time stamp in front has no dot).
Listed(fs) == { f \in DOMAIN fs : allowed_file(f.name) }

\* files.sort(key=created, reverse=True): newest first, files created at
\* the same time in the order os.listdir gave them, which is any order.
NewestFirst(fs, S) ==
    { q \in Orders(S) : \A a, b \in 1..Len(q) : a < b => fs[q[a]].ctime >= fs[q[b]].ctime }

\* Lines 302-326; stat_ok is false when os.listdir or os.stat raises.
ListUploadedFiles(stat_ok) ==
    /\ IF stat_ok
       THEN \E q \in NewestFirst(files, Listed(files)) :
               admin_response' =
                   [endpoint |-> "files", code |-> 200,
                    body |-> [total_files |-> Len(q),
                              files |-> [a \in 1..Len(q) |->
                                            [filename |-> q[a], created |-> files[q[a]].ctime]]]]
       ELSE admin_response' = [endpoint |-> "files", code |-> 500]
    /\ get_response' = NoResponse
    /\ UNCHANGED <<model_loaded, detection_jobs, files, now, req, upload_response, worker>>
    /\ UNCHANGED clients

\* Lines 362-393; the sizes are left out, and stat_ok is false when
\* os.listdir, os.path.getsize or os.statvfs raises.
GetStorageInfo(stat_ok) ==
    /\ admin_response' =
           IF stat_ok
           THEN [endpoint |-> "storage", code |-> 200,
                 body |-> [total_files |-> Cardinality(DOMAIN files)]]
           ELSE [endpoint |-> "storage", code |-> 500]
    /\ get_response' = NoResponse
    /\ UNCHANGED <<model_loaded, detection_jobs, files, now, req, upload_response, worker>>
    /\ UNCHANGED clients

\* ------------------------------------------------------------ the clock
Tick ==
    /\ now < MaxTime
    /\ now' = now + 1
    /\ NoReply
    /\ UNCHANGED <<model_loaded, detection_jobs, files, req, upload_response, worker>>
    /\ UNCHANGED clients

\* ----------------------------------------------------------------- Next
\* The steps of the background thread of job j.
Worker(j) ==
    \/ WorkerProcessing(j)
    \/ \E readable \in BOOLEAN, infer_ok \in BOOLEAN,
          raw \in SeqsUpTo(Boxes, MaxBoxes), uniq \in SeqsUpTo(Classes, Cardinality(Classes)) :
            WorkerDetect(j, readable, infer_ok, raw, uniq)

\* One step of an upload, of a thread, of a cleanup or of the clock, with
\* the uploads' file names and confidence fields drawn from the given sets.
ServerOver(names, confidences) ==
    \/ \E r \in Reqs, has_file \in BOOLEAN, filename \in names,
          confidence \in confidences, save_ok \in BOOLEAN :
            UploadBegin(r, has_file, filename, confidence, save_ok)
    \/ \E r \in Reqs : UploadRegister(r)
    \/ \E r \in Reqs : UploadRespond(r)
    \/ \E j \in JobIds : Worker(j)
    \/ \E days_old \in DaysInputs : CleanupOldFiles(days_old)
    \/ Tick

\* One step of the server: of the above, or a get_result call.
NextOver(names, confidences) ==
    \/ ServerOver(names, confidences)
    \/ \E job_id \in JobIds \cup {UnknownId} : GetResult(job_id)

Next == NextOver(FileNames, ConfInputs)

Spec == Init /\ [][Next]_vars

\* Worker threads are scheduled fairly, and a detector call returns or
\* raises: a started thread takes its next step.
Fairness == \A j \in JobIds : WF_vars(Worker(j))

\* The specification of the liveness check.  Whether a job terminates
\* does not depend on the name or the threshold of its upload: the uploads
\* are drawn from one accepted and one refused file name, without a
\* confidence field.
LiveFileNames == { <<"a",".","j","p","g">>, <<"a",".","t","x","t">> }
LiveConfInputs == { [kind |-> "absent"] }
LiveNext == NextOver(LiveFileNames, LiveConfInputs)

LiveSpec == Init /\ [][LiveNext]_vars /\ Fairness

\* The server with a poller.  What a poller is given does not depend on
\* the name or the threshold of the upload.
PollNext ==
    \/ LiveNext
    \/ \E job_id \in JobIds : Poll(job_id)

PollSpec == Init /\ [][PollNext]_vars

\* The server with a get_result call whose statements interleave with the
\* steps of the threads and of the other handlers.
ReadNext ==
    \/ LiveNext
    \/ \E job_id \in JobIds \cup {UnknownId} : ReaderFetch(job_id)
    \/ ReaderBuild
    \/ ReaderFinish

ReadSpec == Init /\ [][ReadNext]_vars

\* The server with a list_jobs call whose loop interleaves with the steps
\* of the threads and of the other handlers.
ListNext ==
    \/ ServerOver(LiveFileNames, LiveConfInputs)
    \/ ListBegin
    \/ ListStep
    \/ ListReturn

ListSpec == Init /\ [][ListNext]_vars

\* The server with the storage endpoints.
StorageNext ==
    \/ LiveNext
    \/ \E stat_ok \in BOOLEAN : ListUploadedFiles(stat_ok)
    \/ \E stat_ok \in BOOLEAN : GetStorageInfo(stat_ok)

StorageSpec == Init /\ [][StorageNext]_vars

\* The server with one upload, its confidence field drawn from the values
\* around the ends of the accepted range and its detector producing up to
\* MaxDetections boxes.
OneUploadNext ==
    \/ \E has_file \in BOOLEAN, filename \in LiveFileNames,
          confidence \in AllConfInputs, save_ok \in BOOLEAN :
            UploadBegin(1, has_file, filename, confidence, save_ok)
    \/ UploadRegister(1)
    \/ UploadRespond(1)
    \/ WorkerProcessing(1)
    \/ \E readable \in BOOLEAN, infer_ok \in BOOLEAN,
          raw \in SeqsUpTo(Boxes, MaxDetections),
          uniq \in SeqsUpTo(Classes, Cardinality(Classes)) :
            WorkerDetect(1, readable, infer_ok, raw, uniq)
    \/ GetResult(1)
    \/ \E days_old \in DaysInputs : CleanupOldFiles(days_old)
    \/ Tick

OneUploadSpec == Init /\ [][OneUploadNext]_vars

\* ------------------------------------------------------------ properties
Registered(j) == j \in DOMAIN detection_jobs
Status(j) == detection_jobs[j].status
Terminal(j) == Registered(j) /\ Status(j) \in {"completed", "error"}

\* The job id an upload returned, for the uploads answered with success.
Answered(r) == upload_response[r].code = 200
JobOf(r) == upload_response[r].body.job_id

\* What get_result answers for a job in the current state.
View(j) == GetResultResponse(detection_jobs, j)

StatusStep(a, b) ==
    \/ a = b
    \/ a = "queued" /\ b = "processing"
    \/ a = "processing" /\ b \in {"completed", "error"}

\* C1: no step of any handler, thread or reader changes a job's stored
\* status except from queued to processing, or from processing to
\* completed or to error; a job is never removed.
C1_StatusMonotonic ==
    [][\A j \in DOMAIN detection_jobs :
          /\ j \in DOMAIN detection_jobs'
          /\ StatusStep(detection_jobs[j].status, detection_jobs'[j].status)]_vars

\* Both terminal transitions have happened.
C1_Witness ==
    \E j, k \in JobIds :
        /\ Terminal(j) /\ Status(j) = "completed"
        /\ Terminal(k) /\ Status(k) = "error"

\* C2: once an upload has been answered with a job id, that job is in the
\* store, and a get_result for the id answers 200, never 404.
C2_NeverNotFound ==
    \A r \in Reqs :
        Answered(r) =>
            /\ Registered(JobOf(r))
            /\ View(JobOf(r)).code = 200
            /\ (get_response # NoResponse /\ get_response.job_id = JobOf(r)
                    => get_response.code = 200)

\* get_result has answered for a job whose upload was answered and
\* whose detection has failed.
C2_Witness ==
    \E r \in Reqs :
        /\ Answered(r)
        /\ get_response # NoResponse
        /\ get_response.job_id = JobOf(r)
        /\ get_response.code = 200
        /\ get_response.body.status = "error"

Executing == { j \in JobIds : worker[j].pc = "processing" }

\* C4: the number of detector invocations executing at the same time is at
\* most a fixed worker limit, a limit being a number smaller than the
\* number of uploads that can be in flight.
C4_WorkerLimit ==
    \E limit \in 1..(MaxUploads - 1) : Cardinality(Executing) <= limit

\* C5: the confidence threshold get_result reports for a job equals the
\* threshold its upload stored and returned, in every status.
C5_ThresholdKept ==
    \A r \in Reqs :
        Answered(r) =>
            View(JobOf(r)).body.confidence_threshold =
                upload_response[r].body.confidence_threshold

\* C6: no step changes the timestamp get_result reports for a job.
C6_TimestampKept ==
    [][\A j \in DOMAIN detection_jobs :
          GetResultResponse(detection_jobs', j).body.timestamp =
              GetResultResponse(detection_jobs, j).body.timestamp]_vars

\* An upload without a file, with an empty file name, or with a name that
\* has none of the allowed extensions.
InvalidUpload(has_file, filename) ==
    ~has_file \/ filename = <<>> \/ ~allowed_file(filename)

\* C7: with the model loaded, an upload without a file, with an empty file
\* name or with a name without an allowed extension is answered with 400,
\* and the job store, the upload folder and the threads are unchanged.
C7_InvalidUploadRefused ==
    [][\A r \in Reqs, has_file \in BOOLEAN, filename \in FileNames,
          confidence \in ConfInputs, save_ok \in BOOLEAN :
            (/\ model_loaded
             /\ InvalidUpload(has_file, filename)
             /\ UploadBegin(r, has_file, filename, confidence, save_ok))
            => /\ upload_response'[r].code = 400
               /\ UNCHANGED <<detection_jobs, files, worker>>]_vars

\* C8: while the model is not loaded every upload is answered with 503,
\* whatever else is wrong with it, and the job store, the upload folder and
\* the threads stay as they were at the start.
C8_UnavailableRefused ==
    ~model_loaded =>
        /\ \A r \in Reqs :
              /\ req[r].pc \in {"idle", "done"}
              /\ req[r].pc = "done" => upload_response[r].code = 503
              /\ req[r].pc = "idle" => upload_response[r] = NoResponse
        /\ DOMAIN detection_jobs = {}
        /\ DOMAIN files = {}
        /\ \A j \in JobIds : worker[j] = NoWorker

\* Every upload was tried without the model and answered with 503.
C8_Witness ==
    /\ ~model_loaded
    /\ \A r \in Reqs : req[r].pc = "done" /\ upload_response[r].code = 503

\* The thread of job j has ended and its detector call raised.
DetectorRaised(j) == worker[j].pc = "done" /\ worker[j].raised

\* C9: a job whose detector call raised is error with a non-empty message
\* from the end of its thread on, and the step that records the failure
\* changes no other job and no other thread.
C9_FailureRecorded ==
    /\ [](\A j \in JobIds :
            DetectorRaised(j) =>
                /\ Registered(j)
                /\ Status(j) = "error"
                /\ detection_jobs[j].error # ""
                /\ View(j).body.error = detection_jobs[j].error)
    /\ [][\A j \in JobIds :
            (worker[j].pc = "processing" /\ worker'[j].pc = "done") =>
                \A k \in JobIds \ {j} :
                    /\ worker'[k] = worker[k]
                    /\ Registered(k) =>
                          k \in DOMAIN detection_jobs' /\ detection_jobs'[k] = detection_jobs[k]]_vars

\* One job's detector raised and its failure was recorded while another
\* job is completed.
C9_Witness ==
    \E j, k \in JobIds :
        /\ DetectorRaised(j)
        /\ Status(j) = "error"
        /\ Registered(k) /\ Status(k) = "completed"

ResultFields == {"all_labels", "confidences", "avg_confidence", "detection_details"}
ResultFieldsOfView == {"all_detected_labels", "confidences", "average_confidence"}

HasResult(record) == ResultFields \subseteq DOMAIN record
NoResult(record) == ResultFields \cap DOMAIN record = {} /\ record.results = <<>>
HasError(record) == "error" \in DOMAIN record

\* C11: every stored job has exactly one status of the four; a queued or
\* processing job has neither result fields nor an error field, a completed
\* job has the result fields and no error field, an error job has an error
\* field and no result fields; get_result's body has the same shape.
C11_PayloadByStatus ==
    \A j \in DOMAIN detection_jobs :
        LET job == detection_jobs[j]
            body == View(j).body
        IN  /\ job.status \in {"queued", "processing", "completed", "error"}
            /\ job.status \in {"queued", "processing"} =>
                  /\ NoResult(job) /\ ~HasError(job)
                  /\ ResultFieldsOfView \cap DOMAIN body = {}
                  /\ "error" \notin DOMAIN body
            /\ job.status = "completed" =>
                  /\ HasResult(job) /\ ~HasError(job)
                  /\ ResultFieldsOfView \subseteq DOMAIN body
                  /\ "error" \notin DOMAIN body
            /\ job.status = "error" =>
                  /\ HasError(job) /\ NoResult(job)
                  /\ "error" \in DOMAIN body
                  /\ ResultFieldsOfView \cap DOMAIN body = {}

\* One job is completed with a detection and the other is error, after
\* both were processing.
C11_Witness ==
    \E j, k \in DOMAIN detection_jobs :
        /\ Status(j) = "completed" /\ detection_jobs[j].all_labels # <<>>
        /\ Status(k) = "error" /\ detection_jobs[k].error # ""

\* The place of a status in the order queued, processing, terminal.
Rank(status) ==
    IF status = "queued" THEN 1 ELSE IF status = "processing" THEN 2 ELSE 3

\* C12: the statuses a poller of one job is given never regress, and the
\* poller is given processing before it is given completed or error.
C12_ProcessingObserved ==
    \A j \in JobIds :
        /\ \A i \in 1..(Len(polled[j]) - 1) : Rank(polled[j][i]) < Rank(polled[j][i + 1])
        /\ \A i \in 1..Len(polled[j]) :
              polled[j][i] \in {"completed", "error"} =>
                  \E k \in 1..(i - 1) : polled[j][k] = "processing"

\* C12, amended: the statuses a poller of one job is given never regress
\* (each differs from the one before by a move forward in the order
\* queued, processing, completed or error, and a terminal status is the
\* last), and they are never ahead of the stored status; processing, if the
\* poller is given it, comes before completed or error, but a poller can be
\* given completed or error without ever being given processing.
C12_ObservedForward ==
    \A j \in JobIds :
        /\ \A i \in 1..(Len(polled[j]) - 1) : Rank(polled[j][i]) < Rank(polled[j][i + 1])
        /\ polled[j] # <<>> =>
              /\ Registered(j)
              /\ Rank(polled[j][Len(polled[j])]) <= Rank(Status(j))
              /\ polled[j][Len(polled[j])] \in {"completed", "error"}
                    => polled[j][Len(polled[j])] = Status(j)

\* A poller was given queued, then processing, then error.
C12_Witness ==
    \E j \in JobIds : polled[j] = <<"queued", "processing", "error">>

\* C13: a get_result response is never torn, whatever the worker does
\* between the statements of the call: a completed body is the whole view
\* of the job's completed record (that completion's labels, confidences
\* and average), an error body the whole view of its error record, and a
\* queued or processing body has no result field, no error field and no
\* labels.
C13_NoTornView ==
    (get_response # NoResponse /\ get_response.code = 200) =>
        LET j == get_response.job_id
            body == get_response.body
        IN  /\ Registered(j)
            /\ body.status \in {"completed", "error"} => body = View(j).body
            /\ body.status \in {"queued", "processing"} =>
                  /\ DOMAIN body = DOMAIN ResponseData(j, detection_jobs[j])
                  /\ body.hasil = <<>> /\ body.total_objects = 0
                  /\ body.filename = detection_jobs[j].filename

\* The call fetched the record of a job before its thread marked it and
\* built its response while the thread was detecting; the thread then
\* completed the job with a detection, and the call answered processing.
C13_Witness ==
    /\ get_response # NoResponse
    /\ get_response.code = 200
    /\ get_response.body.status = "processing"
    /\ reader = IdleReader
    /\ Registered(get_response.job_id)
    /\ Status(get_response.job_id) = "completed"
    /\ detection_jobs[get_response.job_id].all_labels # <<>>

\* C14: every list_jobs call is answered with 200, and in its body
\* total_jobs is the number of entries of jobs and the sum of active_jobs,
\* completed_jobs and error_jobs.
C14_ListConsistent ==
    (admin_response # NoResponse /\ admin_response.endpoint = "jobs") =>
        /\ admin_response.code = 200
        /\ admin_response.body.total_jobs = Cardinality(DOMAIN admin_response.body.jobs)
        /\ admin_response.body.total_jobs =
              admin_response.body.active_jobs + admin_response.body.completed_jobs
                  + admin_response.body.error_jobs

\* C15: the thread of a job calls the detector at most once: none before
\* the call, one when the thread has ended, whether the call returned or
\* raised; an ended thread takes no further step and the error record it
\* left is never replaced; and a job that has a thread is never given
\* another.
C15_DetectOnce ==
    /\ [](\A j \in JobIds :
            /\ worker[j].pc \in {"started", "processing"} => worker[j].calls = 0
            /\ worker[j].pc = "done" => worker[j].calls = 1 /\ Terminal(j))
    /\ [][\A j \in JobIds :
            worker[j].pc = "done" =>
                /\ worker'[j] = worker[j]
                /\ detection_jobs'[j] = detection_jobs[j]]_vars
    /\ [][\A j \in JobIds :
            worker[j].pc # "none" =>
                \/ worker'[j] = worker[j]
                \/ worker[j].pc = "started" /\ worker'[j].pc = "processing"
                \/ worker[j].pc = "processing" /\ worker'[j].pc = "done"]_vars

\* The detector call of one job raised and the job was left in error
\* while the other job was uploaded, detected and completed.
C15_Witness ==
    \E j, k \in JobIds :
        /\ DetectorRaised(j) /\ worker[j].calls = 1 /\ Status(j) = "error"
        /\ worker[k].pc = "done" /\ ~worker[k].raised /\ Status(k) = "completed"
        /\ detection_jobs[j].timestamp < detection_jobs[k].timestamp

\* C16: upload_image writes the file before it registers the job.  The
\* step that takes a handler past file.save puts the file in the upload
\* folder; a job becomes visible only by a step of a handler that is past
\* file.save, under the name that handler saved, and that step starts the
\* job's thread and writes no file; an upload whose file.save raises is
\* answered with 500, registers no job and starts no thread, then or later.
C16_SaveBeforeRegister ==
    /\ [][\A r \in Reqs :
            (req[r].pc = "idle" /\ req'[r].pc = "saved") =>
                /\ req'[r].filename \in DOMAIN files'
                /\ files'[req'[r].filename].ctime = now
                /\ UNCHANGED <<detection_jobs, worker>>]_vars
    /\ [][\A j \in JobIds :
            (j \notin DOMAIN detection_jobs /\ j \in DOMAIN detection_jobs') =>
                /\ \E r \in Reqs : /\ req[r].pc = "saved"
                                    /\ req[r].job_id = j
                                    /\ detection_jobs'[j].filename = req[r].filename
                /\ worker[j] = NoWorker /\ worker'[j].pc = "started"
                /\ files' = files]_vars
    /\ [][\A r \in Reqs :
            (req[r].pc = "idle" /\ req'[r].pc # "idle") =>
                \A has_file \in BOOLEAN, filename \in FileNames, confidence \in ConfInputs :
                    (/\ UploadCheck(model_loaded, has_file, filename, confidence) = NoResponse
                     /\ UploadBegin(r, has_file, filename, confidence, FALSE))
                    => /\ upload_response'[r].code = 500
                       /\ req'[r] = DoneReq
                       /\ UNCHANGED <<detection_jobs, worker, files>>]_vars
    /\ [](\A j \in JobIds :
            /\ Registered(j) <=> worker[j] # NoWorker
            /\ Registered(j) =>
                  \E r \in Reqs : /\ upload_response[r].code \in {0, 200}
                                  /\ req[r].pc \in {"threaded", "done"}
                                  /\ j = (IF req[r].pc = "threaded" THEN req[r].job_id
                                                                    ELSE JobOf(r)))

\* One upload was refused because file.save raised and left no job and
\* no thread; the other saved its file and then registered its job.
C16_Witness ==
    \E r, q \in Reqs :
        /\ upload_response[r] = Reject(500, "Server error: save")
        /\ req[q].pc = "threaded"
        /\ DOMAIN detection_jobs = {req[q].job_id}
        /\ req[q].filename \in DOMAIN files
        /\ \A j \in JobIds \ {req[q].job_id} : worker[j] = NoWorker

\* C17: list_uploaded_files, get_storage_info and cleanup_old_files
\* leave the job store and the threads as they are, and a step that
\* removes the image of a completed job leaves what get_result answers for
\* the job as it is: 200, completed, the same result.
C17_StorageLeavesJobs ==
    /\ [][\A stat_ok \in BOOLEAN, days_old \in DaysInputs :
            (\/ ListUploadedFiles(stat_ok)
             \/ GetStorageInfo(stat_ok)
             \/ CleanupOldFiles(days_old))
            => UNCHANGED <<detection_jobs, worker>>]_vars
    /\ [][\A j \in DOMAIN detection_jobs :
            (/\ detection_jobs[j].status = "completed"
             /\ detection_jobs[j].filename \in DOMAIN files
             /\ detection_jobs[j].filename \notin DOMAIN files')
            => /\ GetResultResponse(detection_jobs', j) = View(j)
               /\ View(j).code = 200
               /\ View(j).body.status = "completed"]_vars

\* The image of a job completed with a detection has been removed by a
\* cleanup, and get_result has then answered for the job.
C17_Witness ==
    /\ get_response # NoResponse
    /\ get_response.code = 200
    /\ get_response.body.status = "completed"
    /\ get_response.body.all_detected_labels # <<>>
    /\ detection_jobs[get_response.job_id].filename \notin DOMAIN files
    /\ get_response = View(get_response.job_id)

\* The set of the elements of a sequence.
Range(q) == { q[i] : i \in 1..Len(q) }

\* C18: in every completed job the labels and the confidences are as many
\* as total_objects, the unique labels are the distinct labels, each once,
\* and unique_objects is their number; get_result reports the same.
C18_CountsAgree ==
    \A j \in DOMAIN detection_jobs :
        detection_jobs[j].status = "completed" =>
            LET job == detection_jobs[j]
                body == View(j).body
            IN  /\ Len(job.all_labels) = job.total_objects
                /\ Len(job.confidences) = job.total_objects
                /\ Range(job.results) = Range(job.all_labels)
                /\ Len(job.results) = Cardinality(Range(job.all_labels))
                /\ job.unique_objects = Cardinality(Range(job.all_labels))
                /\ Len(body.all_detected_labels) = body.total_objects
                /\ Len(body.confidences) = body.total_objects
                /\ Range(body.hasil) = Range(body.all_detected_labels)
                /\ body.unique_objects = Cardinality(Range(body.all_detected_labels))

\* A job is completed with three boxes of two classes.
C18_Witness ==
    \E j \in DOMAIN detection_jobs :
        /\ Status(j) = "completed"
        /\ Len(detection_jobs[j].all_labels) = MaxDetections
        /\ detection_jobs[j].unique_objects = Cardinality(Classes)
        /\ detection_jobs[j].unique_objects < detection_jobs[j].total_objects

\* C19: when the detector call of a job returns and no box it produced
\* has a confidence of at least the job's threshold, the job becomes
\* completed, not error, with no label, total_objects 0, unique_objects 0
\* and the average confidence 0.
C19_NothingDetected ==
    [][\A j \in JobIds :
          (worker[j].pc = "processing" /\ worker'[j].pc = "done") =>
              \A raw \in SeqsUpTo(Boxes, MaxDetections) :
                  (/\ SelectBoxes(raw, worker[j].conf_threshold) = <<>>
                   /\ worker[j].image_path \in DOMAIN files
                   /\ WorkerDetect(j, TRUE, TRUE, raw, <<>>))
                  => /\ detection_jobs'[j].status = "completed"
                     /\ detection_jobs'[j].results = <<>>
                     /\ detection_jobs'[j].all_labels = <<>>
                     /\ detection_jobs'[j].confidences = <<>>
                     /\ detection_jobs'[j].total_objects = 0
                     /\ detection_jobs'[j].unique_objects = 0
                     /\ GetResultResponse(detection_jobs', j).body.average_confidence = 0
                     /\ "error" \notin DOMAIN detection_jobs'[j]]_vars

\* A job whose threshold no box reaches is completed with no object, and
\* get_result has answered for it.
C19_Witness ==
    /\ get_response # NoResponse
    /\ get_response.code = 200
    /\ get_response.body.status = "completed"
    /\ get_response.body.total_objects = 0
    /\ get_response.body.average_confidence = 0
    /\ \E r \in Reqs : /\ Answered(r)
                        /\ JobOf(r) = get_response.job_id
                        /\ upload_response[r].body.confidence_threshold = MaxConfidence

\* The threshold the claim gives for a confidence field.
ExpectedThreshold(c) ==
    IF c.kind = "num" /\ c.val >= MinConfidence /\ c.val <= MaxConfidence
    THEN c.val ELSE DefaultConfidence

\* C20: the threshold of an accepted upload is the confidence field when
\* that is a number from 0.1 to 1.0, both included, and 0.5 when it is
\* absent, outside the range or nan; it lies in the range, and the
\* threshold the queued record stores, the one passed to the thread and to
\* the detector, and the one the upload's response returns are that value.
C20_ThresholdClamped ==
    /\ [][\A r \in Reqs :
            (req[r].pc = "idle" /\ req'[r].pc = "saved") =>
                \A has_file \in BOOLEAN, filename \in LiveFileNames,
                   confidence \in AllConfInputs, save_ok \in BOOLEAN :
                     UploadBegin(r, has_file, filename, confidence, save_ok)
                         => req'[r].conf_threshold = ExpectedThreshold(confidence)]_vars
    /\ [][\A r \in Reqs :
            (req[r].pc \in {"saved", "threaded"} /\ req'[r].pc # req[r].pc) =>
                LET j == req[r].job_id
                IN  /\ req[r].conf_threshold \in MinConfidence..MaxConfidence
                    /\ req[r].pc = "saved" =>
                          /\ detection_jobs'[j].confidence_threshold = req[r].conf_threshold
                          /\ worker'[j].conf_threshold = req[r].conf_threshold
                    /\ req[r].pc = "threaded" =>
                          upload_response'[r].body.confidence_threshold
                              = req[r].conf_threshold]_vars
    /\ [](\A r \in Reqs :
            Answered(r) =>
                LET j == JobOf(r)
                    t == upload_response[r].body.confidence_threshold
                IN  /\ t \in MinConfidence..MaxConfidence
                    /\ worker[j].pc # "done" => worker[j].conf_threshold = t
                    /\ Status(j) \in {"queued", "processing"} =>
                          detection_jobs[j].confidence_threshold = t)

\* An upload with the confidence field at the lower end of the range was
\* answered with that threshold while its thread is detecting with it.
C20_Witness ==
    \E r \in Reqs :
        /\ Answered(r)
        /\ upload_response[r].body.confidence_threshold = MinConfidence
        /\ worker[JobOf(r)].pc = "processing"
        /\ worker[JobOf(r)].conf_threshold = MinConfidence
        /\ detection_jobs[JobOf(r)].confidence_threshold = MinConfidence

\* The fields of every get_result body.
BaseFieldsOfView == {"job_id", "status", "hasil", "filename", "timestamp",
                     "total_objects", "unique_objects", "confidence_threshold"}

\* C21: a get_result answer for a stored job is 200 and has the status of
\* the stored record.  For queued and processing it has the base fields
\* only; for completed it has in addition the labels of all kept boxes in
\* the detector's order, their confidences, and their mean rounded to
\* three decimals (0 when there is none); for error it has in addition the
\* stored error message.
C21_ViewByStatus ==
    (get_response # NoResponse /\ get_response.job_id \in DOMAIN detection_jobs) =>
        LET job == detection_jobs[get_response.job_id]
            body == get_response.body
        IN  /\ get_response.code = 200
            /\ body.status = job.status
            /\ body.job_id = get_response.job_id
            /\ job.status \in {"queued", "processing"} => DOMAIN body = BaseFieldsOfView
            /\ job.status = "completed" =>
                  /\ DOMAIN body = BaseFieldsOfView \cup ResultFieldsOfView
                  /\ body.all_detected_labels = job.detection_details.labels
                  /\ body.confidences = job.detection_details.confidences
                  /\ Len(body.confidences) = Len(body.all_detected_labels)
                  /\ IF body.confidences = <<>>
                     THEN body.average_confidence = 0
                     ELSE LET n == Len(body.confidences)
                              d == body.average_confidence * n - 10 * Sum(body.confidences)
                          IN  2 * d <= n /\ 2 * (0 - d) <= n
            /\ job.status = "error" =>
                  /\ DOMAIN body = BaseFieldsOfView \cup {"error"}
                  /\ body.error = job.error
                  /\ body.error # ""

\* get_result has answered for a job completed with three boxes of two
\* classes whose confidences are not all the same.
C21_Witness ==
    /\ get_response # NoResponse
    /\ get_response.code = 200
    /\ get_response.body.status = "completed"
    /\ Len(get_response.body.all_detected_labels) = MaxDetections
    /\ Len(get_response.body.hasil) = Cardinality(Classes)
    /\ Range(get_response.body.confidences) = BoxConfs

\* C22: a get_result call for an id that is not in the job store, an id
\* no upload was given or the id of an upload whose job is not yet
\* registered, is answered with 404 whatever the other jobs are, and leaves
\* the job store, the upload folder and the threads as they are: no entry
\* is made for the id.
C22_UnknownNotFound ==
    /\ [][\A job_id \in JobIds \cup {UnknownId} :
            (job_id \notin DOMAIN detection_jobs /\ GetResult(job_id)) =>
                /\ get_response'.code = 404
                /\ get_response'.job_id = job_id
                /\ DOMAIN get_response'.body = {"error"}
                /\ job_id \notin DOMAIN detection_jobs'
                /\ UNCHANGED <<detection_jobs, files, worker, req, upload_response>>]_vars
    /\ [](get_response # NoResponse =>
            (get_response.code = 404 <=> get_response.job_id \notin DOMAIN detection_jobs))

\* get_result has answered 404 for an id no upload was given while one
\* job is completed and the other is error.
C22_Witness ==
    /\ get_response # NoResponse
    /\ get_response.job_id = UnknownId
    /\ get_response.code = 404
    /\ \E j, k \in DOMAIN detection_jobs : Status(j) = "completed" /\ Status(k) = "error"

\* C23: no two jobs are stored under the same file name: the jobs of two
\* accepted uploads have different backing files, also when the uploads
\* have the same original name and begin within the same second.
C23_DistinctStoredNames ==
    \A j, k \in DOMAIN detection_jobs :
        j # k => detection_jobs[j].filename # detection_jobs[k].filename

====
